---- MODULE Spec2Model ----
(***************************************************************************)
(* plantuml-rs: a bundle builder (build.rs), a bundle cache (binary.rs)    *)
(* and an invoker (executor.rs).                                           *)
(*                                                                         *)
(* Five state machines share this module:                                  *)
(*   SpecBuild  the build script run repeatedly over one output location   *)
(*   SpecCache  concurrent get_bundle_paths callers over one cache         *)
(*              directory that outlives the process                        *)
(*   SpecExec   one execute_pipe round trip after another                  *)
(*   SpecRender one process: main(), or a caller of render_file or         *)
(*              render_to_file, over execute_pipe                          *)
(*   SpecPipe   the parent and the child of one round trip, byte by byte   *)
(*              through pipes of bounded capacity                          *)
(*                                                                         *)
(* Text is a sequence of tokens.  A path is a sequence whose tokens are    *)
(* "/" and name pieces, so that split_once('/'), strip_prefix, ends_with   *)
(* and == act on it as they act on the string.                             *)
(***************************************************************************)
EXTENDS Integers, Sequences, FiniteSets, TLC

VARIABLES
    \* ---- build.rs ----
    bTarget,      \* (CARGO_CFG_TARGET_OS, CARGO_CFG_TARGET_ARCH)
    bHostUnix,    \* cfg(unix) of the machine that compiles and runs build.rs
    bPc,          \* position of the current run of main()
    bSrc,         \* jre_bytes decoded: the entries of the downloaded archive
    bIdx,         \* index of the next entry of the for loop
    bWriter,      \* entries handed to zip_writer so far
    bundleFile,   \* binaries/plantuml-bundle.zip on disk
    bBuilds,      \* runs of main() started
    bReused,      \* the last run found the file and returned early
    \* ---- binary.rs ----
    os,           \* platform the program was built for
    archiveOk,    \* PLANTUML_BUNDLE is a readable ZIP
    files,        \* cache directory: file path -> "absent" | "partial" | "full"
    perms,        \* cache directory: file path -> Unix mode of the file, 0 if absent
    dirs,         \* cache directory: directories present
    cell,         \* EXTRACTED_DIR: "unset" | "set"
    owner,        \* thread running the OnceCell initializer, 0 if none
    pc,           \* per thread: position in get_bundle_paths
    idx,          \* per thread: index i of the extraction loop
    res,          \* per thread: value returned by the last call
    hist,         \* per thread: what the current call has done so far
    proc,         \* process-wide history: counters of the current process
    \* ---- executor.rs ----
    xPc,          \* position in execute_pipe
    xInput,       \* the diagram text
    xChild,       \* the child: what it will print and how it ends
    xOutput,      \* result of wait_with_output
    xResult,      \* value returned by execute_pipe
    xCalls,       \* calls started
    \* ---- lib.rs and bin/plantuml.rs ----
    rPc,          \* position in main() or in the library function called
    rCall,        \* who was called, with which input and output paths
    rInFile,      \* the input file as fs::read_to_string found it
    rOutFile,     \* the output file: present or not, and its text
    rOutBefore,   \* the output file as the call found it
    rResult,      \* value returned by render / render_file / render_to_file
    rExit,        \* exit code of the process, once it has ended
    rStderr,      \* what main() printed to stderr
    rStdout,      \* what main() wrote to stdout
    \* ---- executor.rs, byte by byte through the pipes ----
    qPc,          \* the parent: in write_all, in wait_with_output, or past it
    qLeft,        \* bytes of the input that write_all has still to write
    qStdin,       \* bytes in the stdin pipe
    qStdinOpen,   \* the parent holds the write end of the stdin pipe
    qStdout,      \* bytes in the stdout pipe
    qStderr,      \* bytes in the stderr pipe
    qChild,       \* the child: its next operation and what it has still to print
    qGot          \* bytes the parent has captured

buildVars == <<bTarget, bHostUnix, bPc, bSrc, bIdx, bWriter, bundleFile, bBuilds, bReused>>
cacheVars == <<os, archiveOk, files, perms, dirs, cell, owner, pc, idx, res, hist, proc>>
execVars  == <<xPc, xInput, xChild, xOutput, xResult, xCalls>>
renderVars == <<rPc, rCall, rInFile, rOutFile, rOutBefore, rResult, rExit, rStderr, rStdout>>
pipeVars  == <<qPc, qLeft, qStdin, qStdinOpen, qStdout, qStderr, qChild, qGot>>
vars      == <<buildVars, cacheVars, execVars, renderVars, pipeVars>>

(***************************************************************************)
(* Bounds                                                                  *)
(***************************************************************************)
MaxEntries == 2      \* entries of a downloaded runtime archive
MaxBuilds  == 3      \* runs of the build script
NumThreads == 2      \* concurrent callers of get_bundle_paths
MaxCalls   == 2      \* get_bundle_paths calls per process
MaxRuns    == 2      \* processes, one after the other
MaxFaults  == 1      \* I/O failures injected into extraction
MaxTamper  == 1      \* outside changes to the cache directory
MaxExec    == 2      \* execute_pipe calls
MaxOut     == 2      \* length of a captured stream
PipeCap    == 2      \* bytes a pipe holds
MaxInput   == 3      \* bytes of diagram text
MaxChildOut == 3     \* bytes the child prints to stdout
MaxChildErr == 2     \* bytes the child prints to stderr

(***************************************************************************)
(* Strings                                                                 *)
(***************************************************************************)
Slash == "/"

\* str::ends_with('/')
EndsWithSlash(s) == Len(s) > 0 /\ s[Len(s)] = Slash

\* str::starts_with / the test inside strip_prefix
StartsWith(s, p) == Len(s) >= Len(p) /\ SubSeq(s, 1, Len(p)) = p

\* the remainder strip_prefix returns when the prefix matches
DropPrefix(s, p) == SubSeq(s, Len(p) + 1, Len(s))

\* position of the first '/', 0 if there is none
FirstSlash(s) ==
    IF \E i \in 1..Len(s) : s[i] = Slash
    THEN CHOOSE i \in 1..Len(s) : s[i] = Slash /\ \A j \in 1..(i - 1) : s[j] # Slash
    ELSE 0

\* a loop that forgets to drop the top-level directory
StripNothing(name) == name

\* name.split_once('/').map(|(_, rest)| rest).unwrap_or(&name)
StripFirstSegment(name) ==
    IF FirstSlash(name) = 0 THEN name
    ELSE SubSeq(name, FirstSlash(name) + 1, Len(name))

\* str::contains for a one-token needle
Contains(s, tok) == \E i \in 1..Len(s) : s[i] = tok

\* Path::join of a relative path onto a base
Join(base, rel) ==
    IF base = <<>> THEN rel
    ELSE IF EndsWithSlash(base) THEN base \o rel
    ELSE base \o <<Slash>> \o rel

(***************************************************************************)
(* build.rs: the bundle builder                                            *)
(***************************************************************************)
\* unwrap_or(0o644): mode of an entry whose header carries none
DefaultFileMode == 420

JarEntry == [name |-> <<"plantuml.jar">>, dir |-> FALSE, mode |-> DefaultFileMode, data |-> "jar"]

RuntimeRoot == <<"jre", Slash>>

ContentsHomeSlash == <<"Contents", Slash, "Home", Slash>>

ContentsHome == <<"Contents", Slash, "Home">>

Targets ==
    { <<"windows", "x86_64">>, <<"linux", "x86_64">>, <<"linux", "aarch64">>,
      <<"macos", "x86_64">>, <<"macos", "aarch64">>, <<"freebsd", "x86_64">> }

\* the match on (target_os, target_arch); every other pair panics
Supported(t) ==
    t \in { <<"windows", "x86_64">>, <<"linux", "x86_64">>, <<"linux", "aarch64">>,
            <<"macos", "x86_64">>, <<"macos", "aarch64">> }

IsTarball(t) == t[1] # "windows"

IsMacos(t) == t[1] = "macos"

\* a loop without the macOS branch
StripMacosNever(rel, is_macos) == rel

\* strip_prefix("Contents/Home/").or_else(strip_prefix("Contents/Home")).unwrap_or(..)
StripMacos(rel, is_macos) ==
    IF ~is_macos THEN rel
    ELSE IF StartsWith(rel, ContentsHomeSlash) THEN DropPrefix(rel, ContentsHomeSlash)
    ELSE IF StartsWith(rel, ContentsHome) THEN DropPrefix(rel, ContentsHome)
    ELSE rel

\* the second `continue` of the tarball loop
Discarded(rel) == rel = <<>> \/ rel = <<"Contents">> \/ rel = <<"Contents", Slash>>

\* ZipWriter::add_directory stores a directory name with a trailing '/'
DirName(path) == IF EndsWithSlash(path) THEN path ELSE path \o <<Slash>>

\* one iteration of the loop of create_bundle_zip_from_zip: the entries it emits
ZipEmit(e) ==
    LET rel == StripFirstSegment(e.name)
        bundle_path == RuntimeRoot \o rel
    IN  IF rel = <<>> THEN <<>>
        ELSE IF EndsWithSlash(e.name)
        THEN << [name |-> DirName(bundle_path), dir |-> TRUE,
                 mode |-> DefaultFileMode, data |-> ""] >>
        ELSE << [name |-> bundle_path, dir |-> FALSE,
                 mode |-> DefaultFileMode, data |-> e.data] >>

\* one iteration of the loop of create_bundle_zip_from_tarball
TarEmit(e, is_macos, host_unix) ==
    LET rel0 == StripFirstSegment(e.name)
        rel == StripMacos(rel0, is_macos)
        bundle_path == RuntimeRoot \o rel
    IN  IF rel0 = <<>> THEN <<>>
        ELSE IF Discarded(rel) THEN <<>>
        ELSE IF e.type = "dir"
        THEN << [name |-> DirName(bundle_path), dir |-> TRUE,
                 mode |-> DefaultFileMode, data |-> ""] >>
        ELSE IF e.type = "file"
        THEN << [name |-> bundle_path, dir |-> FALSE,
                 mode |-> IF host_unix THEN e.mode ELSE DefaultFileMode,
                 data |-> e.data] >>
        ELSE <<>>

\* the body of whichever loop main() selects for the target
Emit(e, t, host_unix) ==
    IF IsTarball(t) THEN TarEmit(e, IsMacos(t), host_unix) ELSE ZipEmit(e)

Names(entries) == { entries[i].name : i \in 1..Len(entries) }

\* entries a runtime archive can hold; every name begins with the wrapper directory
Wrapper == "wrapper-dir"

W(rest) == <<Wrapper, Slash>> \o rest

EntryPool ==
    { [name |-> W(<<>>), type |-> "dir", mode |-> 493, data |-> ""],
      [name |-> W(<<"bin", Slash>>), type |-> "dir", mode |-> 493, data |-> ""],
      [name |-> W(<<"bin", Slash, "java">>), type |-> "file", mode |-> 493, data |-> "elf"],
      [name |-> W(<<"bin", Slash, "java.exe">>), type |-> "file", mode |-> 420, data |-> "pe"],
      [name |-> W(<<"lib", Slash, "link">>), type |-> "symlink", mode |-> 511, data |-> ""],
      [name |-> W(<<"Contents", Slash, "Home", Slash, "lib", Slash, "link">>),
       type |-> "symlink", mode |-> 511, data |-> ""],
      [name |-> W(<<"Contents", Slash>>), type |-> "dir", mode |-> 493, data |-> ""],
      [name |-> W(<<"Contents", Slash, "Home">>), type |-> "dir", mode |-> 493, data |-> ""],
      [name |-> W(<<"Contents", Slash, "Home", Slash, "bin", Slash, "java">>),
       type |-> "file", mode |-> 493, data |-> "macho"],
      [name |-> W(<<"Contents", Slash, "Home", Slash, "Contents">>),
       type |-> "file", mode |-> 420, data |-> "x"],
      [name |-> W(<<"Contents", Slash, "Info.plist">>), type |-> "file", mode |-> 420, data |-> "plist"] }

RECURSIVE ArchivesOfLen(_)
ArchivesOfLen(n) ==
    IF n = 0 THEN { <<>> }
    ELSE { Append(a, e) : a \in ArchivesOfLen(n - 1), e \in EntryPool }

\* archives of distinct entries, at most MaxEntries long
Archives ==
    { a \in UNION { ArchivesOfLen(n) : n \in 0..MaxEntries } :
        \A i, j \in 1..Len(a) : i # j => a[i].name # a[j].name }

NoFile == [present |-> FALSE, entries |-> <<>>, finalized |-> FALSE]

BuildIdle ==
    /\ bTarget = <<"linux", "x86_64">>
    /\ bHostUnix = TRUE
    /\ bPc = "idle"
    /\ bSrc = <<>>
    /\ bIdx = 0
    /\ bWriter = <<>>
    /\ bundleFile = NoFile
    /\ bBuilds = 0
    /\ bReused = FALSE

BuildInit ==
    /\ bTarget \in Targets
    /\ bHostUnix \in BOOLEAN
    /\ bPc = "idle"
    /\ bSrc = <<>>
    /\ bIdx = 0
    /\ bWriter = <<>>
    /\ bundleFile = NoFile
    /\ bBuilds = 0
    /\ bReused = FALSE

\* a panic unwinds main(): the file stays where File::create put it, holding what
\* was written; dropping the ZipWriter may or may not write the central directory
Panic(closed) ==
    /\ bPc' = "panicked"
    /\ bundleFile' = IF bPc \in {"add_jar", "open", "entries", "finish"}
                     THEN [present |-> TRUE, entries |-> bWriter, finalized |-> closed]
                     ELSE bundleFile

\* main(), up to the early return
BuildStart ==
    /\ bPc \in {"idle", "done", "skipped", "panicked"}
    /\ bBuilds < MaxBuilds
    /\ bBuilds' = bBuilds + 1
    /\ bIdx' = 0
    /\ bWriter' = <<>>
    /\ bSrc' = IF bundleFile.present THEN bSrc ELSE <<>>
    /\ \E mkdir_ok \in BOOLEAN :
         IF ~Supported(bTarget) \/ ~mkdir_ok
         THEN bPc' = "panicked" /\ bReused' = FALSE
         ELSE IF bundleFile.present
         THEN bPc' = "skipped" /\ bReused' = TRUE
         ELSE bPc' = "download_jar" /\ bReused' = FALSE
    /\ UNCHANGED <<bTarget, bHostUnix, bundleFile>>
    /\ UNCHANGED <<cacheVars, execVars, renderVars, pipeVars>>

\* download_file(PLANTUML_JAR_URL)
DownloadJar ==
    /\ bPc = "download_jar"
    /\ \E ok \in BOOLEAN : bPc' = IF ok THEN "download_jre" ELSE "panicked"
    /\ UNCHANGED <<bTarget, bHostUnix, bSrc, bIdx, bWriter, bundleFile, bBuilds, bReused>>
    /\ UNCHANGED <<cacheVars, execVars, renderVars, pipeVars>>

\* download_file(jre_url)
DownloadJre ==
    /\ bPc = "download_jre"
    /\ \/ \E a \in Archives : bSrc' = a /\ bPc' = "create"
       \/ bSrc' = bSrc /\ bPc' = "panicked"
    /\ UNCHANGED <<bTarget, bHostUnix, bIdx, bWriter, bundleFile, bBuilds, bReused>>
    /\ UNCHANGED <<cacheVars, execVars, renderVars, pipeVars>>

\* File::create(output_path) and ZipWriter::new
CreateFile ==
    /\ bPc = "create"
    /\ \E ok \in BOOLEAN :
         IF ok
         THEN bPc' = "add_jar" /\ bundleFile' = [present |-> TRUE, entries |-> <<>>, finalized |-> FALSE]
         ELSE bPc' = "panicked" /\ bundleFile' = bundleFile
    /\ bWriter' = <<>>
    /\ UNCHANGED <<bTarget, bHostUnix, bSrc, bIdx, bBuilds, bReused>>
    /\ UNCHANGED <<cacheVars, execVars, renderVars, pipeVars>>

\* start_file("plantuml.jar") and write_all(jar_bytes)
AddJar ==
    /\ bPc = "add_jar"
    /\ \/ /\ bWriter' = Append(bWriter, JarEntry)
          /\ bundleFile' = [bundleFile EXCEPT !.entries = bWriter']
          /\ bPc' = "open"
       \/ \E closed \in BOOLEAN : Panic(closed) /\ bWriter' = bWriter
    /\ UNCHANGED <<bTarget, bHostUnix, bSrc, bIdx, bBuilds, bReused>>
    /\ UNCHANGED <<cacheVars, execVars, renderVars, pipeVars>>

\* ZipArchive::new(cursor) / Archive::new(GzDecoder) and entries()
OpenArchive ==
    /\ bPc = "open"
    /\ \/ bPc' = "entries" /\ bIdx' = 1 /\ bundleFile' = bundleFile
       \/ \E closed \in BOOLEAN : Panic(closed) /\ bIdx' = bIdx
    /\ UNCHANGED <<bTarget, bHostUnix, bSrc, bWriter, bBuilds, bReused>>
    /\ UNCHANGED <<cacheVars, execVars, renderVars, pipeVars>>

\* one iteration of the for loop; the writer refuses a name it already holds
EntryStep ==
    /\ bPc = "entries"
    /\ bIdx <= Len(bSrc)
    /\ LET out == Emit(bSrc[bIdx], bTarget, bHostUnix)
       IN  \/ /\ Names(out) \cap Names(bWriter) = {}
              /\ bWriter' = bWriter \o out
              /\ bundleFile' = [bundleFile EXCEPT !.entries = bWriter']
              /\ bIdx' = bIdx + 1
              /\ bPc' = "entries"
           \/ \E closed \in BOOLEAN : Panic(closed) /\ bWriter' = bWriter /\ bIdx' = bIdx
    /\ UNCHANGED <<bTarget, bHostUnix, bSrc, bBuilds, bReused>>
    /\ UNCHANGED <<cacheVars, execVars, renderVars, pipeVars>>

\* the loop is over
EntriesDone ==
    /\ bPc = "entries"
    /\ bIdx > Len(bSrc)
    /\ bPc' = "finish"
    /\ UNCHANGED <<bTarget, bHostUnix, bSrc, bIdx, bWriter, bundleFile, bBuilds, bReused>>
    /\ UNCHANGED <<cacheVars, execVars, renderVars, pipeVars>>

\* zip_writer.finish()
Finish ==
    /\ bPc = "finish"
    /\ \/ bPc' = "done" /\ bundleFile' = [present |-> TRUE, entries |-> bWriter, finalized |-> TRUE]
       \/ Panic(FALSE)
    /\ UNCHANGED <<bTarget, bHostUnix, bSrc, bIdx, bWriter, bBuilds, bReused>>
    /\ UNCHANGED <<cacheVars, execVars, renderVars, pipeVars>>

NextBuild ==
    \/ BuildStart
    \/ DownloadJar
    \/ DownloadJre
    \/ CreateFile
    \/ AddJar
    \/ OpenArchive
    \/ EntryStep
    \/ EntriesDone
    \/ Finish

(***************************************************************************)
(* binary.rs: the bundle cache                                             *)
(***************************************************************************)
Platforms == {"windows", "linux", "macos"}

TargetOf(o) == <<o, "x86_64">>

\* the runtime archive the build downloads for a platform, cut down to the
\* launcher, one more file and the directories around them
SampleJre(o) ==
    LET dirE(n)  == [name |-> W(n), type |-> "dir", mode |-> 493, data |-> ""]
        exeE(n)  == [name |-> W(n), type |-> "file", mode |-> 493, data |-> "launcher"]
        fileE(n) == [name |-> W(n), type |-> "file", mode |-> 420, data |-> "modules"]
    IN  IF o = "windows"
        THEN << dirE(<<>>), dirE(<<"bin", Slash>>),
                exeE(<<"bin", Slash, "java.exe">>), fileE(<<"lib", Slash, "modules">>) >>
        ELSE IF o = "linux"
        THEN << dirE(<<>>), dirE(<<"bin", Slash>>),
                exeE(<<"bin", Slash, "java">>), fileE(<<"lib", Slash, "modules">>) >>
        ELSE << dirE(<<>>), dirE(<<"Contents", Slash>>),
                dirE(ContentsHomeSlash \o <<"bin", Slash>>),
                exeE(ContentsHomeSlash \o <<"bin", Slash, "java">>),
                fileE(ContentsHomeSlash \o <<"lib", Slash, "modules">>) >>

RECURSIVE Repack(_, _, _, _)
\* the whole of create_bundle_zip_from_*: the jar, then the loop over the archive
Repack(src, i, t, host_unix) ==
    IF i = 0 THEN <<JarEntry>>
    ELSE Repack(src, i - 1, t, host_unix) \o Emit(src[i], t, host_unix)

\* what the build leaves in binaries/plantuml-bundle.zip, on a Unix host
BuiltBundle(o) == Repack(SampleJre(o), Len(SampleJre(o)), TargetOf(o), TRUE)

BundleWindows == BuiltBundle("windows")

BundleLinux == BuiltBundle("linux")

BundleMacos == BuiltBundle("macos")

\* include_bytes!("../binaries/plantuml-bundle.zip")
PLANTUML_BUNDLE(o) ==
    IF o = "windows" THEN BundleWindows ELSE IF o = "linux" THEN BundleLinux ELSE BundleMacos

\* get_cache_dir(): base.join("plantuml-rs").join(VERSION)
CacheDir == Join(Join(<<"cache">>, <<"plantuml-rs">>), <<"VERSION">>)

\* dir.join("jre").join("bin").join("java.exe")
JavaExe(dir) == Join(Join(Join(dir, <<"jre">>), <<"bin">>), <<"java.exe">>)

\* dir.join("plantuml.jar")
JarPath(dir) == Join(dir, <<"plantuml.jar">>)

\* Path::parent of a path that does not end in '/'
RECURSIVE Parent(_)
Parent(p) ==
    IF p = <<>> THEN <<>>
    ELSE IF p[Len(p)] = Slash THEN SubSeq(p, 1, Len(p) - 1)
    ELSE Parent(SubSeq(p, 1, Len(p) - 1))

Threads == 1..NumThreads

FilePaths ==
    UNION { { Join(CacheDir, PLANTUML_BUNDLE(o)[i].name) :
                i \in { j \in 1..Len(PLANTUML_BUNDLE(o)) : ~PLANTUML_BUNDLE(o)[j].dir } }
            : o \in Platforms }
    \cup { JavaExe(CacheDir), JarPath(CacheDir) }

\* Path::exists
Exists(p) == (p \in DOMAIN files /\ files[p] # "absent") \/ p \in dirs

NoRes == [kind |-> "none", java_exe |-> <<>>, plantuml_jar |-> <<>>, cause |-> ""]

\* Ok(BundlePaths { java_exe, plantuml_jar }) of get_bundle_paths
OkPaths(dir) ==
    [kind |-> "Ok", java_exe |-> JavaExe(dir), plantuml_jar |-> JarPath(dir), cause |-> ""]

\* Err(PlantUmlError::BinaryExtraction(cause))
ErrExtraction(cause) ==
    [kind |-> "BinaryExtraction", java_exe |-> <<>>, plantuml_jar |-> <<>>, cause |-> cause]

NoHist == [after |-> FALSE, read |-> FALSE, wrote |-> FALSE, opened |-> FALSE,
           warm |-> FALSE, via |-> "none"]

NewProc(run, faults, tampers) ==
    [run |-> run, calls |-> 0, extractions |-> 0, failed |-> 0, succeeded |-> FALSE,
     faults |-> faults, tampers |-> tampers]

\* every file entry of the bundle is on disk with all of its bytes
Warm ==
    \A i \in 1..Len(PLANTUML_BUNDLE(os)) :
        ~PLANTUML_BUNDLE(os)[i].dir => files[Join(CacheDir, PLANTUML_BUNDLE(os)[i].name)] = "full"

CacheIdle ==
    /\ os = "windows"
    /\ archiveOk = TRUE
    /\ files = [p \in FilePaths |-> "absent"]
    /\ perms = [p \in FilePaths |-> 0]
    /\ dirs = {}
    /\ cell = "unset"
    /\ owner = 0
    /\ pc = [t \in Threads |-> "idle"]
    /\ idx = [t \in Threads |-> 0]
    /\ res = [t \in Threads |-> NoRes]
    /\ hist = [t \in Threads |-> NoHist]
    /\ proc = NewProc(1, 0, 0)

CacheInit ==
    /\ os \in Platforms
    /\ archiveOk \in BOOLEAN
    /\ files = [p \in FilePaths |-> "absent"]
    /\ perms = [p \in FilePaths |-> 0]
    /\ dirs = {}
    /\ cell = "unset"
    /\ owner = 0
    /\ pc = [t \in Threads |-> "idle"]
    /\ idx = [t \in Threads |-> 0]
    /\ res = [t \in Threads |-> NoRes]
    /\ hist = [t \in Threads |-> NoHist]
    /\ proc = NewProc(1, 0, 0)

\* mode of a file that File::create makes: 0o666 less the umask 0o022
CreateMode == 420

\* File::create(&output_path): a new file gets CreateMode, a file that is there
\* is truncated and keeps its mode; nothing after it sets permissions
Created(output_path) ==
    [perms EXCEPT ![output_path] = IF files[output_path] = "absent" THEN CreateMode ELSE @]

\* a cell that never keeps its value
MemoizedNever == FALSE

\* OnceCell::get
Memoized == cell = "set"

\* an initializer without the guard
MayInitializeUnguarded(t) == TRUE

\* OnceCell::get_or_try_init lets one caller at a time run the initializer
MayInitialize(t) == owner = 0

\* the initializer returned Ok(dir): the cell keeps it and the waiters are released
Succeed(t, how) ==
    /\ cell' = "set"
    /\ owner' = 0
    /\ pc' = [pc EXCEPT ![t] = "returned"]
    /\ res' = [res EXCEPT ![t] = OkPaths(CacheDir)]
    /\ hist' = [hist EXCEPT ![t].via = how, ![t].read = TRUE, ![t].warm = Warm]
    /\ proc' = [proc EXCEPT !.succeeded = TRUE]

\* a cell that keeps the failure as if it were a directory
FailMemoized(t, cause, injected) ==
    /\ owner' = 0
    /\ cell' = "set"
    /\ pc' = [pc EXCEPT ![t] = "returned"]
    /\ res' = [res EXCEPT ![t] = ErrExtraction(cause)]
    /\ proc' = [proc EXCEPT !.failed = @ + 1,
                            !.faults = IF injected THEN @ + 1 ELSE @]
    /\ UNCHANGED idx

\* the initializer returned Err: `?` hands it to the caller, the cell stays empty
Fail(t, cause, injected) ==
    /\ owner' = 0
    /\ pc' = [pc EXCEPT ![t] = "returned"]
    /\ res' = [res EXCEPT ![t] = ErrExtraction(cause)]
    /\ proc' = [proc EXCEPT !.failed = @ + 1,
                            !.faults = IF injected THEN @ + 1 ELSE @]
    /\ UNCHANGED <<cell, idx>>

\* a caller enters get_bundle_paths (of the threads that have not called yet,
\* which are alike, the lowest goes first)
Call(t) ==
    /\ pc[t] \in {"idle", "returned"}
    /\ pc[t] = "idle" => \A u \in 1..(t - 1) : pc[u] # "idle"
    /\ proc.calls < MaxCalls
    /\ pc' = [pc EXCEPT ![t] = "enter"]
    /\ res' = [res EXCEPT ![t] = NoRes]
    /\ hist' = [hist EXCEPT ![t] = [NoHist EXCEPT !.after = proc.succeeded]]
    /\ idx' = [idx EXCEPT ![t] = 0]
    /\ proc' = [proc EXCEPT !.calls = @ + 1]
    /\ UNCHANGED <<os, archiveOk, files, perms, dirs, cell, owner>>
    /\ UNCHANGED <<buildVars, execVars, renderVars, pipeVars>>

\* EXTRACTED_DIR.get_or_try_init: the memoized directory, or the right to initialize
Enter(t) ==
    /\ pc[t] = "enter"
    /\ IF Memoized
       THEN /\ pc' = [pc EXCEPT ![t] = "returned"]
            /\ res' = [res EXCEPT ![t] = OkPaths(CacheDir)]
            /\ hist' = [hist EXCEPT ![t].via = "memo"]
            /\ UNCHANGED owner
       ELSE /\ MayInitialize(t)
            /\ owner' = t
            /\ pc' = [pc EXCEPT ![t] = "check"]
            /\ UNCHANGED <<res, hist>>
    /\ UNCHANGED <<os, archiveOk, files, perms, dirs, cell, idx, proc>>
    /\ UNCHANGED <<buildVars, execVars, renderVars, pipeVars>>

\* extract_bundle, up to the early return
Check(t) ==
    /\ pc[t] = "check"
    /\ IF Exists(JavaExe(CacheDir)) /\ Exists(JarPath(CacheDir))
       THEN /\ Succeed(t, "fast")
            /\ UNCHANGED idx
       ELSE /\ pc' = [pc EXCEPT ![t] = "mkdir"]
            /\ hist' = [hist EXCEPT ![t].read = TRUE, ![t].warm = Warm]
            /\ proc' = [proc EXCEPT !.extractions = @ + 1]
            /\ UNCHANGED <<cell, owner, res, idx>>
    /\ UNCHANGED <<os, archiveOk, files, perms, dirs>>
    /\ UNCHANGED <<buildVars, execVars, renderVars, pipeVars>>

\* fs::create_dir_all(&cache_dir)
Mkdir(t) ==
    /\ pc[t] = "mkdir"
    /\ \/ /\ dirs' = dirs \cup {CacheDir}
          /\ pc' = [pc EXCEPT ![t] = "open"]
          /\ hist' = [hist EXCEPT ![t].wrote = TRUE]
          /\ UNCHANGED <<cell, owner, res, idx, proc>>
       \/ /\ proc.faults < MaxFaults
          /\ Fail(t, "create_dir_all", TRUE)
          /\ UNCHANGED <<dirs, hist>>
    /\ UNCHANGED <<os, archiveOk, files, perms>>
    /\ UNCHANGED <<buildVars, execVars, renderVars, pipeVars>>

\* zip::ZipArchive::new(cursor)
Open(t) ==
    /\ pc[t] = "open"
    /\ IF archiveOk
       THEN /\ pc' = [pc EXCEPT ![t] = "loop"]
            /\ idx' = [idx EXCEPT ![t] = 1]
            /\ hist' = [hist EXCEPT ![t].opened = TRUE]
            /\ UNCHANGED <<cell, owner, res, proc>>
       ELSE /\ Fail(t, "InvalidData", FALSE)
            /\ hist' = [hist EXCEPT ![t].opened = TRUE]
    /\ UNCHANGED <<os, archiveOk, files, perms, dirs>>
    /\ UNCHANGED <<buildVars, execVars, renderVars, pipeVars>>

\* one iteration of the extraction loop
LoopStep(t) ==
    /\ pc[t] = "loop"
    /\ idx[t] <= Len(PLANTUML_BUNDLE(os))
    /\ LET name == PLANTUML_BUNDLE(os)[idx[t]].name
           output_path == Join(CacheDir, name)
       IN  IF EndsWithSlash(name)
           THEN \/ /\ dirs' = dirs \cup {output_path}
                   /\ idx' = [idx EXCEPT ![t] = @ + 1]
                   /\ UNCHANGED <<files, perms, cell, owner, pc, res, proc>>
                \/ /\ proc.faults < MaxFaults
                   /\ Fail(t, "create_dir_all", TRUE)
                   /\ UNCHANGED <<files, perms, dirs>>
           ELSE \/ /\ dirs' = dirs \cup {Parent(output_path)}
                   /\ files' = [files EXCEPT ![output_path] = "full"]
                   /\ perms' = Created(output_path)
                   /\ idx' = [idx EXCEPT ![t] = @ + 1]
                   /\ UNCHANGED <<cell, owner, pc, res, proc>>
                \/ /\ proc.faults < MaxFaults
                   /\ \E at \in {"File::create", "write_all"} :
                        /\ Fail(t, at, TRUE)
                        /\ dirs' = dirs \cup {Parent(output_path)}
                        /\ files' = IF at = "write_all"
                                    THEN [files EXCEPT ![output_path] = "partial"]
                                    ELSE files
                        /\ perms' = IF at = "write_all" THEN Created(output_path) ELSE perms
    /\ UNCHANGED <<os, archiveOk, hist>>
    /\ UNCHANGED <<buildVars, execVars, renderVars, pipeVars>>

\* Ok(cache_dir) after the loop
ExtractDone(t) ==
    /\ pc[t] = "loop"
    /\ idx[t] > Len(PLANTUML_BUNDLE(os))
    /\ cell' = "set"
    /\ owner' = 0
    /\ pc' = [pc EXCEPT ![t] = "returned"]
    /\ res' = [res EXCEPT ![t] = OkPaths(CacheDir)]
    /\ hist' = [hist EXCEPT ![t].via = "extract"]
    /\ proc' = [proc EXCEPT !.succeeded = TRUE]
    /\ UNCHANGED <<os, archiveOk, files, perms, dirs, idx>>
    /\ UNCHANGED <<buildVars, execVars, renderVars, pipeVars>>

\* the process ends and the program is started again: statics are fresh, the
\* cache directory is what the last process left
Restart ==
    /\ \A t \in Threads : pc[t] \in {"idle", "returned"}
    /\ proc.calls > 0
    /\ proc.run < MaxRuns
    /\ cell' = "unset"
    /\ owner' = 0
    /\ pc' = [t \in Threads |-> "idle"]
    /\ idx' = [t \in Threads |-> 0]
    /\ res' = [t \in Threads |-> NoRes]
    /\ hist' = [t \in Threads |-> NoHist]
    /\ proc' = NewProc(proc.run + 1, proc.faults, proc.tampers)
    /\ UNCHANGED <<os, archiveOk, files, perms, dirs>>
    /\ UNCHANGED <<buildVars, execVars, renderVars, pipeVars>>

\* somebody else deletes or truncates a file of the cache directory
Tamper ==
    /\ proc.tampers < MaxTamper
    /\ \E p \in FilePaths, s \in {"absent", "partial"} :
         /\ files[p] # "absent"
         /\ files[p] # s
         /\ files' = [files EXCEPT ![p] = s]
         /\ perms' = [perms EXCEPT ![p] = IF s = "absent" THEN 0 ELSE @]
    /\ proc' = [proc EXCEPT !.tampers = @ + 1]
    /\ UNCHANGED <<os, archiveOk, dirs, cell, owner, pc, idx, res, hist>>
    /\ UNCHANGED <<buildVars, execVars, renderVars, pipeVars>>

NextCache ==
    \/ \E t \in Threads : Call(t)
    \/ \E t \in Threads : Enter(t)
    \/ \E t \in Threads : Check(t)
    \/ \E t \in Threads : Mkdir(t)
    \/ \E t \in Threads : Open(t)
    \/ \E t \in Threads : LoopStep(t)
    \/ \E t \in Threads : ExtractDone(t)
    \/ Restart
    \/ Tamper

(***************************************************************************)
(* executor.rs: the invoker                                                *)
(*                                                                         *)
(* A captured stream is a sequence of chunks: a chunk is a piece of ASCII  *)
(* text, or one of the bytes C3 (lead of a two-byte sequence), A9 (a       *)
(* continuation byte) and FF (never valid in UTF-8).                       *)
(***************************************************************************)
Lead2 == {"C3"}

Cont == {"A9"}

NonAscii == {"C3", "A9", "FF"}

StdoutChunks == {"<svg>", "C3", "A9", "FF"}

StderrChunks == {"Syntax Error", "@startuml", "Exception", "FF"}

RECURSIVE StreamsOfLen(_, _)
StreamsOfLen(alphabet, n) ==
    IF n = 0 THEN { <<>> }
    ELSE { Append(s, c) : s \in StreamsOfLen(alphabet, n - 1), c \in alphabet }

Streams(alphabet) == UNION { StreamsOfLen(alphabet, n) : n \in 0..MaxOut }

\* Option<i32>: <<>> is None, <<c>> is Some(c)
UnwrapOr(opt, default) == IF opt = <<>> THEN default ELSE opt[1]

\* how a child can end: exit codes, or a signal (no code)
Statuses == { [code |-> <<0>>], [code |-> <<1>>], [code |-> <<200>>], [code |-> <<>>] }

\* ExitStatus::success
Success(status) == status.code = <<0>>

RECURSIVE Utf8Valid(_)
\* the validation of String::from_utf8
Utf8Valid(b) ==
    IF b = <<>> THEN TRUE
    ELSE IF Head(b) \notin NonAscii THEN Utf8Valid(Tail(b))
    ELSE IF Head(b) \in Lead2 /\ Len(b) >= 2 /\ b[2] \in Cont THEN Utf8Valid(SubSeq(b, 3, Len(b)))
    ELSE FALSE

RECURSIVE Utf8Lossy(_)
\* String::from_utf8_lossy: each invalid byte becomes U+FFFD
Utf8Lossy(b) ==
    IF b = <<>> THEN <<>>
    ELSE IF Head(b) \notin NonAscii THEN <<Head(b)>> \o Utf8Lossy(Tail(b))
    ELSE IF Head(b) \in Lead2 /\ Len(b) >= 2 /\ b[2] \in Cont
    THEN <<"U+00E9">> \o Utf8Lossy(SubSeq(b, 3, Len(b)))
    ELSE <<"U+FFFD">> \o Utf8Lossy(Tail(b))

XRes(kind, text, code) == [kind |-> kind, text |-> text, code |-> code]

NoXRes == XRes("none", <<>>, <<>>)

\* a lossy decoding in place of the strict one
FromUtf8Replacing(b) == XRes("Ok", Utf8Lossy(b), <<>>)

\* String::from_utf8(bytes).map_err(PlantUmlError::InvalidUtf8)
FromUtf8(b) ==
    IF Utf8Valid(b) THEN XRes("Ok", Utf8Lossy(b), <<>>) ELSE XRes("InvalidUtf8", <<>>, <<>>)

\* a classification that never looks at stderr
LooksLikeSyntaxErrorNever(stderr) == FALSE

\* the test that makes a failure a SyntaxError
LooksLikeSyntaxError(stderr) == Contains(stderr, "Syntax Error") \/ Contains(stderr, "@startuml")

\* execute_pipe after wait_with_output
Classify(output) ==
    IF ~Success(output.status)
    THEN LET stderr == Utf8Lossy(output.stderr)
             code == UnwrapOr(output.status.code, -1)
         IN  IF LooksLikeSyntaxError(stderr)
             THEN XRes("SyntaxError", stderr, <<>>)
             ELSE XRes("ProcessFailed", stderr, <<code>>)
    ELSE FromUtf8(output.stdout)

Inputs == { <<"@startuml", "Alice -> Bob: Hello", "@enduml">>, <<"this is not valid plantuml">> }

NoChild == [spawned |-> FALSE, args |-> <<>>, stdin |-> <<>>, stdin_open |-> FALSE,
            stdout |-> <<>>, stderr |-> <<>>, status |-> [code |-> <<>>], waited |-> FALSE]

NoOutput == [collected |-> FALSE, status |-> [code |-> <<>>], stdout |-> <<>>, stderr |-> <<>>]

ExecIdle ==
    /\ xPc = "idle"
    /\ xInput = <<>>
    /\ xChild = NoChild
    /\ xOutput = NoOutput
    /\ xResult = NoXRes
    /\ xCalls = 0

\* a caller enters execute_pipe
ExecStart ==
    /\ xPc \in {"idle", "done"}
    /\ xCalls < MaxExec
    /\ xCalls' = xCalls + 1
    /\ \E text \in Inputs : xInput' = text
    /\ xPc' = "resolve"
    /\ xChild' = NoChild
    /\ xOutput' = NoOutput
    /\ xResult' = NoXRes
    /\ UNCHANGED <<buildVars, cacheVars, renderVars, pipeVars>>

\* let paths = get_bundle_paths()?
Resolve ==
    /\ xPc = "resolve"
    /\ \/ xPc' = "spawn" /\ xResult' = xResult
       \/ xPc' = "done" /\ xResult' = XRes("BinaryExtraction", <<>>, <<>>)
    /\ UNCHANGED <<xInput, xChild, xOutput, xCalls>>
    /\ UNCHANGED <<buildVars, cacheVars, renderVars, pipeVars>>

\* an argument list that asks for another format
CommandArgsPng(jar) == <<"-jar", jar, "-pipe", "-tpng", "-charset", "UTF-8">>

\* .args(["-jar", jar, "-pipe", "-tsvg", "-charset", "UTF-8"])
CommandArgs(jar) == <<"-jar", jar, "-pipe", "-tsvg", "-charset", "UTF-8">>

\* Command::new(java_exe).args([...]).spawn(); the child is any program.
\* paths.plantuml_jar.to_str().unwrap() panics when the cache directory has a
\* name that is not Unicode.
Spawn ==
    /\ xPc = "spawn"
    /\ \/ /\ \E out \in Streams(StdoutChunks), err \in Streams(StderrChunks), st \in Statuses :
               xChild' = [spawned |-> TRUE,
                          args |-> CommandArgs(JarPath(CacheDir)),
                          stdin |-> <<>>, stdin_open |-> TRUE,
                          stdout |-> out, stderr |-> err, status |-> st, waited |-> FALSE]
          /\ xPc' = "write"
          /\ xResult' = xResult
       \/ /\ xChild' = xChild
          /\ xPc' = "done"
          /\ xResult' = XRes("ProcessSpawn", <<>>, <<>>)
       \/ /\ xChild' = xChild
          /\ xPc' = "panicked"
          /\ xResult' = xResult
    /\ UNCHANGED <<xInput, xOutput, xCalls>>
    /\ UNCHANGED <<buildVars, cacheVars, renderVars, pipeVars>>

\* stdin.write_all(input.as_bytes()), then stdin is dropped
WriteStdin ==
    /\ xPc = "write"
    /\ \/ /\ xChild' = [xChild EXCEPT !.stdin = xInput, !.stdin_open = FALSE]
          /\ xPc' = "wait"
          /\ xResult' = xResult
       \/ /\ xChild' = [xChild EXCEPT !.stdin_open = FALSE]
          /\ xPc' = "done"
          /\ xResult' = XRes("StdinWrite", <<>>, <<>>)
    /\ UNCHANGED <<xInput, xOutput, xCalls>>
    /\ UNCHANGED <<buildVars, cacheVars, renderVars, pipeVars>>

\* child.wait_with_output()
Wait ==
    /\ xPc = "wait"
    /\ \/ /\ xOutput' = [collected |-> TRUE, status |-> xChild.status,
                         stdout |-> xChild.stdout, stderr |-> xChild.stderr]
          /\ xChild' = [xChild EXCEPT !.waited = TRUE]
          /\ xPc' = "classify"
          /\ xResult' = xResult
       \/ /\ xOutput' = xOutput
          /\ xChild' = xChild
          /\ xPc' = "done"
          /\ xResult' = XRes("ProcessSpawn", <<>>, <<>>)
    /\ UNCHANGED <<xInput, xCalls>>
    /\ UNCHANGED <<buildVars, cacheVars, renderVars, pipeVars>>

\* the decision on output.status, and the return
Return ==
    /\ xPc = "classify"
    /\ xResult' = Classify(xOutput)
    /\ xPc' = "done"
    /\ UNCHANGED <<xInput, xChild, xOutput, xCalls>>
    /\ UNCHANGED <<buildVars, cacheVars, renderVars, pipeVars>>

NextExec ==
    \/ ExecStart
    \/ Resolve
    \/ Spawn
    \/ WriteStdin
    \/ Wait
    \/ Return

(***************************************************************************)
(* lib.rs and bin/plantuml.rs: the facade and the command line             *)
(*                                                                         *)
(* One process, one top-level call: main() with some argument vector      *)
(* (which calls render or render_file), or a library caller of             *)
(* render_to_file.  The call runs execute_pipe through the actions of the  *)
(* invoker above.  An argument is a sequence of tokens; argv leaves out    *)
(* the program name.                                                       *)
(***************************************************************************)
InputPath == <<"diagram", ".puml">>

OutputPath == <<"out", ".svg">>

\* an argument that is not valid Unicode
BadArg == <<"diagram", "FF", ".puml">>

ArgVectors ==
    { <<>>, << <<"--help">> >>, << <<"-h">> >>, << <<"--stdin">> >>,
      << InputPath >>, << InputPath, OutputPath >>, << BadArg >> }

\* env::args() panics on an argument that is not valid Unicode
ArgsUnicode(argv) == \A i \in 1..Len(argv) : ~Contains(argv[i], "FF")

\* format!("{}.svg", input.file_stem())
DefaultOutput(input) ==
    (IF Len(input) > 1 THEN SubSeq(input, 1, Len(input) - 1) ELSE input) \o <<".svg">>

DiagramTexts == { <<"@startuml", "Alice -> Bob: Hello", "@enduml">> }

NoCall == [entry |-> "none", fn |-> "none", input |-> <<>>, output |-> <<>>]

RRes(kind, text, code, path) == [kind |-> kind, text |-> text, code |-> code, path |-> path]

NoRRes == RRes("none", <<>>, <<>>, <<>>)

\* Ok(())
OkUnit == RRes("Ok", <<>>, <<>>, <<>>)

\* an error of execute_pipe, or its text, handed on as it is
FromExec(x) == RRes(x.kind, x.text, x.code, <<>>)

\* PlantUmlError::InputRead { path: input.to_path_buf(), source }
InputRead(path) == RRes("InputRead", <<>>, <<>>, path)

\* a write error that does not say where
OutputWriteUnnamed(path) == RRes("OutputWrite", <<>>, <<>>, <<>>)

\* PlantUmlError::OutputWrite { path: output.to_path_buf(), source }
OutputWrite(path) == RRes("OutputWrite", <<>>, <<>>, path)

\* a function that goes on to write whatever execute_pipe returned
ProceedsToWriteAlways(x) == TRUE

\* the `?` after execute_pipe: only Ok(svg) goes on to fs::write
ProceedsToWrite(x) == x.kind = "Ok"

\* a main() that reports success whatever happened
ExitCodeAlwaysSuccess(ok) == IF ok THEN 0 ELSE 0

\* ExitCode::SUCCESS and ExitCode::from(1)
ExitCode(ok) == IF ok THEN 0 ELSE 1

\* exit status of a process whose main thread panicked
PanicExit == 101

NoOutFile == [present |-> FALSE, text |-> <<>>]

OldOutFile == [present |-> TRUE, text |-> <<"old svg">>]

RenderIdle ==
    /\ rPc = "idle"
    /\ rCall = NoCall
    /\ rInFile = [readable |-> FALSE, text |-> <<>>]
    /\ rOutFile = NoOutFile
    /\ rOutBefore = NoOutFile
    /\ rResult = NoRRes
    /\ rExit = <<>>
    /\ rStderr = ""
    /\ rStdout = <<>>

RenderInit ==
    /\ rPc = "idle"
    /\ rCall = NoCall
    /\ rInFile = [readable |-> FALSE, text |-> <<>>]
    /\ rOutFile \in { NoOutFile, OldOutFile }
    /\ rOutBefore = rOutFile
    /\ rResult = NoRRes
    /\ rExit = <<>>
    /\ rStderr = ""
    /\ rStdout = <<>>

\* the call executor::execute_pipe(text)
CallExecutePipe(text) ==
    /\ xPc' = "resolve"
    /\ xInput' = text
    /\ xChild' = NoChild
    /\ xOutput' = NoOutput
    /\ xResult' = NoXRes
    /\ UNCHANGED xCalls

\* main(), up to the call of the library
MainStart ==
    /\ rPc = "idle"
    /\ \E argv \in ArgVectors :
         IF ~ArgsUnicode(argv)
         THEN /\ rPc' = "panicked"
              /\ rExit' = <<PanicExit>>
              /\ rStderr' = "panicked"
              /\ UNCHANGED rCall
         ELSE IF Len(argv) < 1
         THEN /\ rPc' = "exited"
              /\ rExit' = <<ExitCode(FALSE)>>
              /\ rStderr' = "Usage"
              /\ UNCHANGED rCall
         ELSE IF argv[1] \in { <<"--help">>, <<"-h">> }
         THEN /\ rPc' = "exited"
              /\ rExit' = <<ExitCode(TRUE)>>
              /\ rStderr' = "Usage"
              /\ UNCHANGED rCall
         ELSE IF argv[1] = <<"--stdin">>
         THEN /\ rPc' = "read_stdin"
              /\ rCall' = [entry |-> "main", fn |-> "render", input |-> <<>>, output |-> <<>>]
              /\ UNCHANGED <<rExit, rStderr>>
         ELSE /\ rPc' = "read"
              /\ rCall' = [entry |-> "main", fn |-> "render_file", input |-> argv[1],
                           output |-> IF Len(argv) >= 2 THEN argv[2] ELSE DefaultOutput(argv[1])]
              /\ UNCHANGED <<rExit, rStderr>>
    /\ UNCHANGED <<rInFile, rOutFile, rOutBefore, rResult, rStdout>>
    /\ UNCHANGED <<buildVars, cacheVars, execVars, pipeVars>>

\* a program that uses the library calls render_to_file(text, output)
LibStart ==
    /\ rPc = "idle"
    /\ \E text \in DiagramTexts :
         /\ rCall' = [entry |-> "lib", fn |-> "render_to_file",
                      input |-> <<>>, output |-> OutputPath]
         /\ rPc' = "exec"
         /\ CallExecutePipe(text)
    /\ UNCHANGED <<rInFile, rOutFile, rOutBefore, rResult, rExit, rStderr, rStdout>>
    /\ UNCHANGED <<buildVars, cacheVars, pipeVars>>

\* io::stdin().read_to_string(&mut input), then plantuml::render(&input)
ReadStdin ==
    /\ rPc = "read_stdin"
    /\ \/ \E text \in DiagramTexts :
            /\ CallExecutePipe(text)
            /\ rPc' = "exec"
            /\ UNCHANGED <<rExit, rStderr>>
       \/ /\ rPc' = "exited"
          /\ rExit' = <<ExitCode(FALSE)>>
          /\ rStderr' = "Error reading stdin"
          /\ UNCHANGED execVars
    /\ UNCHANGED <<rCall, rInFile, rOutFile, rOutBefore, rResult, rStdout>>
    /\ UNCHANGED <<buildVars, cacheVars, pipeVars>>

\* render_file: fs::read_to_string(input), then execute_pipe(&plantuml)
ReadInput ==
    /\ rPc = "read"
    /\ \/ \E text \in DiagramTexts :
            /\ rInFile' = [readable |-> TRUE, text |-> text]
            /\ CallExecutePipe(text)
            /\ rPc' = "exec"
            /\ UNCHANGED rResult
       \/ /\ rInFile' = [readable |-> FALSE, text |-> <<>>]
          /\ rResult' = InputRead(rCall.input)
          /\ rPc' = "returned"
          /\ UNCHANGED execVars
    /\ UNCHANGED <<rCall, rOutFile, rOutBefore, rExit, rStderr, rStdout>>
    /\ UNCHANGED <<buildVars, cacheVars, pipeVars>>

\* execute_pipe is over: render returns what it returned, the two file
\* functions return its error or go on to write; a panic unwinds the caller
AfterExecute ==
    /\ rPc = "exec"
    /\ xPc \in {"done", "panicked"}
    /\ IF xPc = "panicked"
       THEN /\ rPc' = "panicked"
            /\ rExit' = IF rCall.entry = "main" THEN <<PanicExit>> ELSE rExit
            /\ rStderr' = "panicked"
            /\ UNCHANGED rResult
       ELSE IF rCall.fn # "render" /\ ProceedsToWrite(xResult)
       THEN /\ rPc' = "write"
            /\ UNCHANGED <<rResult, rExit, rStderr>>
       ELSE /\ rPc' = "returned"
            /\ rResult' = FromExec(xResult)
            /\ UNCHANGED <<rExit, rStderr>>
    /\ UNCHANGED <<rCall, rInFile, rOutFile, rOutBefore, rStdout>>
    /\ UNCHANGED <<buildVars, cacheVars, execVars, pipeVars>>

\* fs::write(output, &svg): create or truncate, then write; a failure leaves the
\* file as it was or cut short
WriteOutput ==
    /\ rPc = "write"
    /\ \/ /\ rOutFile' = [present |-> TRUE, text |-> xResult.text]
          /\ rResult' = OkUnit
       \/ /\ rOutFile' \in { rOutFile, [present |-> TRUE, text |-> <<>>] }
          /\ rResult' = OutputWrite(rCall.output)
    /\ rPc' = "returned"
    /\ UNCHANGED <<rCall, rInFile, rOutBefore, rExit, rStderr, rStdout>>
    /\ UNCHANGED <<buildVars, cacheVars, execVars, pipeVars>>

\* main(), after the library returned: the two match statements
MainExit ==
    /\ rPc = "returned"
    /\ rCall.entry = "main"
    /\ IF rResult.kind # "Ok"
       THEN /\ rStderr' = IF rCall.fn = "render" THEN "Error rendering diagram" ELSE "Error"
            /\ rExit' = <<ExitCode(FALSE)>>
            /\ UNCHANGED rStdout
       ELSE IF rCall.fn = "render_file"
       THEN /\ rStderr' = "Rendered"
            /\ rExit' = <<ExitCode(TRUE)>>
            /\ UNCHANGED rStdout
       ELSE \/ /\ rStdout' = rResult.text
               /\ rExit' = <<ExitCode(TRUE)>>
               /\ UNCHANGED rStderr
            \/ /\ rStderr' = "Error writing to stdout"
               /\ rExit' = <<ExitCode(FALSE)>>
               /\ UNCHANGED rStdout
    /\ rPc' = "exited"
    /\ UNCHANGED <<rCall, rInFile, rOutFile, rOutBefore, rResult>>
    /\ UNCHANGED <<buildVars, cacheVars, execVars, pipeVars>>

NextRender ==
    \/ MainStart
    \/ LibStart
    \/ ReadStdin
    \/ ReadInput
    \/ Resolve
    \/ Spawn
    \/ WriteStdin
    \/ Wait
    \/ Return
    \/ AfterExecute
    \/ WriteOutput
    \/ MainExit

(***************************************************************************)
(* executor.rs, lines 28-38, byte by byte                                  *)
(*                                                                         *)
(* The parent and the child are two sequential programs joined by three    *)
(* pipes of PipeCap bytes.  A write to a full pipe and a read from an      *)
(* empty pipe whose write end is open block.  The child is any program     *)
(* that reads until end of input, prints when it likes, and exits once it  *)
(* has seen end of input and has printed everything.                       *)
(***************************************************************************)
\* what the child may turn to next
NextOps(c) ==
    LET ops == (IF c.eof THEN {} ELSE {"read"})
               \cup (IF c.out > 0 THEN {"out"} ELSE {})
               \cup (IF c.err > 0 THEN {"err"} ELSE {})
    IN  IF ops = {} THEN {"exit"} ELSE ops

Children ==
    { c \in [op : {"read", "out", "err", "exit"}, out : 0..MaxChildOut,
             err : 0..MaxChildErr, eof : {FALSE}] : c.op \in NextOps(c) }

PipeIdle ==
    /\ qPc = "idle"
    /\ qLeft = 0
    /\ qStdin = 0
    /\ qStdinOpen = FALSE
    /\ qStdout = 0
    /\ qStderr = 0
    /\ qChild = [op |-> "exited", out |-> 0, err |-> 0, eof |-> TRUE]
    /\ qGot = [out |-> 0, err |-> 0]

\* the state spawn() returns in: three empty pipes, the input still to write
PipeInit ==
    /\ qPc = "write"
    /\ qLeft \in 0..MaxInput
    /\ qStdin = 0
    /\ qStdinOpen = TRUE
    /\ qStdout = 0
    /\ qStderr = 0
    /\ qChild \in Children
    /\ qGot = [out |-> 0, err |-> 0]

\* stdin.write_all(input.as_bytes()): one more byte goes into the pipe; the
\* write fails when the child is gone
ParentWrite ==
    /\ qPc = "write"
    /\ qLeft > 0
    /\ IF qChild.op = "exited"
       THEN /\ qPc' = "stdin_write_error"
            /\ qStdinOpen' = FALSE
            /\ UNCHANGED <<qLeft, qStdin>>
       ELSE /\ qStdin < PipeCap
            /\ qStdin' = qStdin + 1
            /\ qLeft' = qLeft - 1
            /\ UNCHANGED <<qPc, qStdinOpen>>
    /\ UNCHANGED <<qStdout, qStderr, qChild, qGot>>
    /\ UNCHANGED <<buildVars, cacheVars, execVars, renderVars>>

\* write_all is over and stdin is dropped; child.wait_with_output() starts
ParentClose ==
    /\ qPc = "write"
    /\ qLeft = 0
    /\ qStdinOpen' = FALSE
    /\ qPc' = "wait"
    /\ UNCHANGED <<qLeft, qStdin, qStdout, qStderr, qChild, qGot>>
    /\ UNCHANGED <<buildVars, cacheVars, execVars, renderVars>>

\* wait_with_output reads stdout and stderr side by side
ParentRead ==
    /\ qPc = "wait"
    /\ \/ /\ qStdout > 0
          /\ qStdout' = qStdout - 1
          /\ qGot' = [qGot EXCEPT !.out = @ + 1]
          /\ UNCHANGED qStderr
       \/ /\ qStderr > 0
          /\ qStderr' = qStderr - 1
          /\ qGot' = [qGot EXCEPT !.err = @ + 1]
          /\ UNCHANGED qStdout
    /\ UNCHANGED <<qPc, qLeft, qStdin, qStdinOpen, qChild>>
    /\ UNCHANGED <<buildVars, cacheVars, execVars, renderVars>>

\* both streams are at their end and the exit status is collected
ParentReap ==
    /\ qPc = "wait"
    /\ qChild.op = "exited"
    /\ qStdout = 0
    /\ qStderr = 0
    /\ qPc' = "done"
    /\ UNCHANGED <<qLeft, qStdin, qStdinOpen, qStdout, qStderr, qChild, qGot>>
    /\ UNCHANGED <<buildVars, cacheVars, execVars, renderVars>>

\* the child reads a byte, or the end of its input
ChildRead ==
    /\ qChild.op = "read"
    /\ \/ /\ qStdin > 0
          /\ qStdin' = qStdin - 1
          /\ \E op \in NextOps(qChild) : qChild' = [qChild EXCEPT !.op = op]
       \/ /\ qStdin = 0
          /\ ~qStdinOpen
          /\ UNCHANGED qStdin
          /\ \E op \in NextOps([qChild EXCEPT !.eof = TRUE]) :
               qChild' = [qChild EXCEPT !.eof = TRUE, !.op = op]
    /\ UNCHANGED <<qPc, qLeft, qStdinOpen, qStdout, qStderr, qGot>>
    /\ UNCHANGED <<buildVars, cacheVars, execVars, renderVars>>

\* the child prints a byte to stdout or to stderr
ChildWrite ==
    /\ \/ /\ qChild.op = "out"
          /\ qStdout < PipeCap
          /\ qStdout' = qStdout + 1
          /\ \E op \in NextOps([qChild EXCEPT !.out = @ - 1]) :
               qChild' = [qChild EXCEPT !.out = @ - 1, !.op = op]
          /\ UNCHANGED qStderr
       \/ /\ qChild.op = "err"
          /\ qStderr < PipeCap
          /\ qStderr' = qStderr + 1
          /\ \E op \in NextOps([qChild EXCEPT !.err = @ - 1]) :
               qChild' = [qChild EXCEPT !.err = @ - 1, !.op = op]
          /\ UNCHANGED qStdout
    /\ UNCHANGED <<qPc, qLeft, qStdin, qStdinOpen, qGot>>
    /\ UNCHANGED <<buildVars, cacheVars, execVars, renderVars>>

\* the child exits: its ends of the pipes close
ChildExit ==
    /\ qChild.op = "exit"
    /\ qChild' = [qChild EXCEPT !.op = "exited"]
    /\ UNCHANGED <<qPc, qLeft, qStdin, qStdinOpen, qStdout, qStderr, qGot>>
    /\ UNCHANGED <<buildVars, cacheVars, execVars, renderVars>>

NextPipe ==
    \/ ParentWrite
    \/ ParentClose
    \/ ParentRead
    \/ ParentReap
    \/ ChildRead
    \/ ChildWrite
    \/ ChildExit

(***************************************************************************)
(* Specifications                                                          *)
(***************************************************************************)
InitBuild == BuildInit /\ CacheIdle /\ ExecIdle /\ RenderIdle /\ PipeIdle

InitCache == BuildIdle /\ CacheInit /\ ExecIdle /\ RenderIdle /\ PipeIdle

InitExec == BuildIdle /\ CacheIdle /\ ExecIdle /\ RenderIdle /\ PipeIdle

InitRender == BuildIdle /\ CacheIdle /\ ExecIdle /\ RenderInit /\ PipeIdle

InitPipe == BuildIdle /\ CacheIdle /\ ExecIdle /\ RenderIdle /\ PipeInit

SpecBuild == InitBuild /\ [][NextBuild]_vars

SpecCache == InitCache /\ [][NextCache]_vars

SpecExec == InitExec /\ [][NextExec]_vars

SpecRender == InitRender /\ [][NextRender]_vars

SpecPipe == InitPipe /\ [][NextPipe]_vars

Init == InitCache

Next == NextCache

Spec == SpecCache

(***************************************************************************)
(* Claims about the bundle cache (SpecCache)                               *)
(***************************************************************************)
\* the threads inside the initializer extract_bundle
InInitializer == { t \in Threads : pc[t] \in {"check", "mkdir", "open", "loop"} }

\* C1, as stated: under any interleaving of get_bundle_paths callers the
\* initializer is never run by two callers at once, and extraction is performed
\* at most once in the lifetime of the process.
C1_ExtractionAtMostOnce ==
    /\ Cardinality(InInitializer) <= 1
    /\ proc.extractions <= 1

\* C1, amended: the initializer is never run by two callers at once; an
\* extraction that succeeds is the last one of the process; an extraction starts
\* again only after every earlier one of the process has failed.
C1_SingleEntrantUntilSuccess ==
    /\ Cardinality(InInitializer) <= 1
    /\ proc.extractions <= proc.failed + 1
    /\ Memoized => InInitializer = {}

\* a second extraction runs in one process, after the first one failed
C1_Witness ==
    /\ proc.extractions = 2
    /\ proc.failed = 1
    /\ \E t \in Threads : pc[t] = "loop"

\* C2: a call that starts after a successful call of the same process returns
\* the same pair of paths and neither reads nor writes the file system nor opens
\* the archive, whatever became of the cache directory in between.
C2_MemoizedWithoutFilesystem ==
    \A t \in Threads :
        (pc[t] = "returned" /\ hist[t].after) =>
            /\ res[t] = OkPaths(CacheDir)
            /\ ~hist[t].read
            /\ ~hist[t].wrote
            /\ ~hist[t].opened
            /\ \A u \in Threads : res[u].kind = "Ok" => res[u] = res[t]

\* a later call has returned the memoized pair although the jar was deleted
C2_Witness ==
    \E t \in Threads :
        /\ pc[t] = "returned"
        /\ hist[t].after
        /\ hist[t].via = "memo"
        /\ proc.tampers > 0
        /\ files[JarPath(CacheDir)] = "absent"

\* C3: in a later process, a call that finds the cache directory holding every
\* file of the bundle takes the fast path: it creates no directory, writes no
\* file and does not open the embedded archive.
C3_WarmCacheFastPath ==
    \A t \in Threads :
        (proc.run > 1 /\ hist[t].warm) =>
            /\ pc[t] \notin {"mkdir", "open", "loop"}
            /\ ~hist[t].wrote
            /\ ~hist[t].opened

\* C4: with nobody else touching the cache directory, a call that takes the
\* fast path found every file of the bundle complete on disk: what a failed
\* extraction left behind is never taken for a complete cache.
C4_PartialNeverValid ==
    \A t \in Threads :
        (proc.tampers = 0 /\ hist[t].via = "fast") => hist[t].warm

(***************************************************************************)
(* Claims about the invoker (SpecExec)                                     *)
(***************************************************************************)
\* C5: when the wait yields a non-zero exit code, execute_pipe returns
\* SyntaxError with the stderr text if that text holds a syntax-error marker
\* ("Syntax Error" or "@startuml"), and otherwise ProcessFailed with the exit
\* code and the stderr text; never the captured stdout.
C5_NonZeroExitClassified ==
    (xPc = "done" /\ xOutput.collected /\ xOutput.status.code \notin {<<>>, <<0>>}) =>
        LET text == Utf8Lossy(xOutput.stderr)
            marker == \E i \in 1..Len(text) : text[i] \in {"Syntax Error", "@startuml"}
        IN  /\ xResult.kind # "Ok"
            /\ marker => xResult = XRes("SyntaxError", text, <<>>)
            /\ ~marker => xResult = XRes("ProcessFailed", text, xOutput.status.code)

\* a child that exited with code 1 and printed the marker was classified
C5_Witness ==
    /\ xPc = "done"
    /\ xOutput.collected
    /\ xOutput.status.code = <<1>>
    /\ xResult.kind = "SyntaxError"
    /\ Contains(xResult.text, "Syntax Error")

\* C6: when the child ends without an exit code (killed by a signal),
\* execute_pipe returns ProcessSignaled.
C6_SignalIsProcessSignaled ==
    (xPc = "done" /\ xOutput.collected /\ xOutput.status.code = <<>>) =>
        xResult.kind = "ProcessSignaled"

\* C7: when the child exits with status zero, execute_pipe returns the captured
\* stdout decoded as UTF-8, whatever stderr holds; if stdout is not valid UTF-8
\* it returns InvalidUtf8 and no text, never a text with replacement characters.
C7_ZeroExitReturnsStdout ==
    (xPc = "done" /\ xOutput.collected /\ xOutput.status.code = <<0>>) =>
        /\ Utf8Valid(xOutput.stdout) => xResult = XRes("Ok", Utf8Lossy(xOutput.stdout), <<>>)
        /\ ~Utf8Valid(xOutput.stdout) => xResult = XRes("InvalidUtf8", <<>>, <<>>)
        /\ ~Contains(xResult.text, "U+FFFD")

\* a zero exit with a two-byte character on stdout and an error marker on stderr
C7_Witness ==
    /\ xPc = "done"
    /\ xOutput.collected
    /\ xOutput.status.code = <<0>>
    /\ xOutput.stderr = <<"Syntax Error">>
    /\ xOutput.stdout = <<"C3", "A9">>
    /\ xResult = XRes("Ok", <<"U+00E9">>, <<>>)

(***************************************************************************)
(* Claims about the bundle builder (SpecBuild)                             *)
(***************************************************************************)
BundleNames == Names(bundleFile.entries)

\* the part of a source name after "wrapper-dir/"
AfterWrapper(name) == DropPrefix(name, W(<<>>))

\* the runtime archive is macOS-shaped: the wrapper directory, a bare
\* wrapper-dir/Contents/ and entries under wrapper-dir/Contents/Home
MacShaped(src) ==
    \A i \in 1..Len(src) :
        \/ src[i].name \in { W(<<>>), W(<<"Contents", Slash>>) }
        \/ StartsWith(src[i].name, W(ContentsHome))

\* C8: a build that finds the bundle file and reuses it finds a complete,
\* finalized bundle: the jar and every entry the loop emits for the archive
\* the file was built from.
C8_ReusedBundleIsComplete ==
    bReused =>
        /\ bundleFile.finalized
        /\ bundleFile.entries = Repack(bSrc, Len(bSrc), bTarget, bHostUnix)

\* C9, as stated (the spec's runtime/ subtree is jre/ in the code): after a
\* build of an archive whose every entry begins with wrapper-dir/, no bundle
\* entry begins with wrapper-dir/, and every wrapper-dir/X with non-empty X is
\* in the bundle as jre/X.
C9_EveryEntryRepacked ==
    bPc = "done" =>
        /\ \A n \in BundleNames : ~StartsWith(n, W(<<>>))
        /\ \A i \in 1..Len(bSrc) :
              AfterWrapper(bSrc[i].name) # <<>> =>
                  \/ RuntimeRoot \o AfterWrapper(bSrc[i].name) \in BundleNames
                  \/ RuntimeRoot \o AfterWrapper(bSrc[i].name) \o <<Slash>> \in BundleNames

\* what the loops keep of an archive for a Windows or Linux target: every entry
\* of a ZIP; of a tarball the regular files and directories, but for one named
\* Contents
C9_Kept(e, t) ==
    /\ AfterWrapper(e.name) # <<>>
    /\ IsTarball(t) =>
          /\ e.type \in {"file", "dir"}
          /\ AfterWrapper(e.name) \notin { <<"Contents">>, <<"Contents", Slash>> }

\* the name C9 expects for a kept entry: jre/X, a directory with one final '/'
C9_Image(e, t) ==
    LET x == AfterWrapper(e.name)
        isDir == IF IsTarball(t) THEN e.type = "dir" ELSE EndsWithSlash(e.name)
    IN  IF isDir /\ ~EndsWithSlash(x) THEN RuntimeRoot \o x \o <<Slash>> ELSE RuntimeRoot \o x

\* C9, amended: no bundle entry begins with wrapper-dir/ and wrapper-dir/ itself
\* yields no entry; for a Windows or Linux target the bundle holds plantuml.jar
\* and exactly jre/X for every kept wrapper-dir/X - on the ZIP path every entry,
\* on the tar path regular files and directories other than Contents; symbolic
\* links are left out.
C9_KeptEntriesRepacked ==
    bPc = "done" =>
        /\ \A n \in BundleNames : ~StartsWith(n, W(<<>>))
        /\ RuntimeRoot \notin BundleNames
        /\ ~IsMacos(bTarget) =>
              BundleNames = { JarEntry.name } \cup
                  { C9_Image(bSrc[i], bTarget) : i \in { j \in 1..Len(bSrc) : C9_Kept(bSrc[j], bTarget) } }

\* a Linux build of an archive with the wrapper directory, a symbolic link and
\* nothing else: the bundle holds the jar alone
C9_Witness ==
    /\ bPc = "done"
    /\ bTarget[1] = "linux"
    /\ Len(bSrc) = 2
    /\ \E i \in 1..Len(bSrc) : bSrc[i].type = "symlink"
    /\ \E i \in 1..Len(bSrc) : bSrc[i].name = W(<<>>)
    /\ BundleNames = { JarEntry.name }

\* C10, as stated: on macOS, for a macOS-shaped archive, every
\* wrapper-dir/Contents/Home/X is in the bundle as jre/X and no bundle entry
\* lies at or under jre/Contents.
C10_MacosEveryEntryStripped ==
    (bPc = "done" /\ IsMacos(bTarget) /\ MacShaped(bSrc)) =>
        /\ \A i \in 1..Len(bSrc) :
              LET n == bSrc[i].name
              IN  (StartsWith(n, W(ContentsHomeSlash)) /\ DropPrefix(n, W(ContentsHomeSlash)) # <<>>) =>
                      RuntimeRoot \o DropPrefix(n, W(ContentsHomeSlash)) \in BundleNames
        /\ \A n \in BundleNames : ~StartsWith(n, RuntimeRoot \o <<"Contents">>)

\* C10, amended: on macOS every regular file or directory
\* wrapper-dir/Contents/Home/X, X not empty and not Contents, is in the bundle
\* as jre/X, and no bundle entry is named jre/Contents or jre/Contents/;
\* symbolic links are left out; on the other targets Contents/Home is kept:
\* wrapper-dir/Contents/Home/X is in the bundle as jre/Contents/Home/X.
C10_MacosKeptEntriesStripped ==
    bPc = "done" =>
        /\ \A i \in 1..Len(bSrc) :
              LET n == bSrc[i].name
                  x == DropPrefix(n, W(ContentsHomeSlash))
                  kept == IF IsTarball(bTarget) THEN bSrc[i].type \in {"file", "dir"} ELSE TRUE
              IN  (StartsWith(n, W(ContentsHomeSlash)) /\ x # <<>> /\ kept) =>
                      IF IsMacos(bTarget)
                      THEN x \notin { <<"Contents">>, <<"Contents", Slash>> } =>
                               RuntimeRoot \o x \in BundleNames
                      ELSE RuntimeRoot \o ContentsHomeSlash \o x \in BundleNames
        /\ IsMacos(bTarget) =>
              /\ RuntimeRoot \o <<"Contents">> \notin BundleNames
              /\ RuntimeRoot \o <<"Contents", Slash>> \notin BundleNames

\* a macOS build of wrapper-dir/Contents/ and wrapper-dir/Contents/Home/bin/java
C10_Witness ==
    /\ bPc = "done"
    /\ IsMacos(bTarget)
    /\ \E i \in 1..Len(bSrc) : bSrc[i].name = W(<<"Contents", Slash>>)
    /\ \E i \in 1..Len(bSrc) : bSrc[i].name = W(ContentsHomeSlash \o <<"bin", Slash, "java">>)
    /\ BundleNames = { JarEntry.name, RuntimeRoot \o <<"bin", Slash, "java">> }

(***************************************************************************)
(* Claims about permissions (SpecBuild, SpecCache)                         *)
(***************************************************************************)
\* the owner-execute bit of a Unix mode
Executable(mode) == (mode \div 64) % 2 = 1

\* C11: when a build is done, on a non-Windows target every regular file of
\* the source tar that was emitted is in the bundle with the mode of its tar
\* header; on the Windows target every file entry carries the default,
\* non-executable mode.
C11_ModesPreserved ==
    bPc = "done" =>
        IF IsTarball(bTarget)
        THEN \A i \in 1..Len(bSrc) :
                LET out == TarEmit(bSrc[i], IsMacos(bTarget), bHostUnix)
                IN  (bSrc[i].type = "file" /\ out # <<>>) =>
                        \E j \in 1..Len(bundleFile.entries) :
                            /\ bundleFile.entries[j].name = out[1].name
                            /\ bundleFile.entries[j].mode = bSrc[i].mode
        ELSE \A j \in 1..Len(bundleFile.entries) :
                ~bundleFile.entries[j].dir =>
                    /\ bundleFile.entries[j].mode = DefaultFileMode
                    /\ ~Executable(bundleFile.entries[j].mode)

\* C12: when a call returns from an extraction it ran to the end, and nobody
\* else touched the cache directory, every file entry of the bundle is on disk
\* with all of its bytes, and on a Unix platform an entry stored as executable
\* is executable on disk.
C12_ExtractedModePreserved ==
    \A t \in Threads :
        (pc[t] = "returned" /\ hist[t].via = "extract" /\ proc.tampers = 0) =>
            \A i \in 1..Len(PLANTUML_BUNDLE(os)) :
                LET e == PLANTUML_BUNDLE(os)[i]
                    output_path == Join(CacheDir, e.name)
                IN  ~e.dir =>
                        /\ files[output_path] = "full"
                        /\ (os # "windows" /\ Executable(e.mode)) => Executable(perms[output_path])

(***************************************************************************)
(* Claims about the facade and the command line (SpecRender)               *)
(***************************************************************************)
\* C13: render_file reads, then executes, then writes.  execute_pipe starts
\* only on the text read from the input file, and the output file changes only
\* after execute_pipe returned Ok.  A failed read returns InputRead with the
\* input path, with no bundle resolved and no child spawned; a failed write
\* returns OutputWrite with the output path; after Ok(()) the output file holds
\* exactly the text execute_pipe returned.
C13_RenderFileOrderAndErrors ==
    rCall.fn = "render_file" =>
        /\ xPc # "idle" => (rInFile.readable /\ xInput = rInFile.text)
        /\ rPc = "write" => (xPc = "done" /\ xResult.kind = "Ok")
        /\ rOutFile # rOutBefore => (xPc = "done" /\ xResult.kind = "Ok")
        /\ rResult.kind = "InputRead" =>
              /\ rResult.path = rCall.input
              /\ xPc = "idle"
              /\ ~xChild.spawned
              /\ rOutFile = rOutBefore
        /\ rResult.kind = "OutputWrite" => rResult.path = rCall.output
        /\ rResult.kind = "Ok" =>
              /\ xResult.kind = "Ok"
              /\ xInput = rInFile.text
              /\ rOutFile = [present |-> TRUE, text |-> xResult.text]

\* render_file returned Ok(()) and the file that was there holds the new text
C13_Witness ==
    /\ rCall.fn = "render_file"
    /\ rPc = "returned"
    /\ rResult.kind = "Ok"
    /\ rOutBefore = OldOutFile
    /\ rOutFile = [present |-> TRUE, text |-> <<"<svg>">>]

\* the process ran main() and ended with a success that main() reports
MainSucceeded ==
    \/ rCall = NoCall /\ rStderr = "Usage"
    \/ rCall.fn = "render_file" /\ rResult.kind = "Ok" /\ rStderr = "Rendered"
    \/ rCall.fn = "render" /\ rResult.kind = "Ok" /\ rStderr = "" /\ rStdout = rResult.text

\* C14: when main() has ended the process, the exit code is 0 on success and 1
\* with a message on stderr otherwise: so it is after every PlantUmlError that
\* render or render_file returned and after a failed read of stdin or write of
\* stdout.  A process that ends by a panic has met none of these: no error
\* value was returned to main() and no execute_pipe error was pending.
C14_ExitCodes ==
    /\ rPc = "exited" =>
          /\ rExit \in { <<0>>, <<1>> }
          /\ rExit = <<0>> => MainSucceeded
          /\ rExit = <<1>> =>
                rStderr \in { "Usage", "Error reading stdin", "Error writing to stdout",
                              "Error rendering diagram", "Error" }
          /\ rResult.kind \notin { "none", "Ok" } =>
                (rExit = <<1>> /\ rStderr \in { "Error rendering diagram", "Error" })
          /\ rStderr \in { "Error reading stdin", "Error writing to stdout" } => rExit = <<1>>
    /\ (rPc = "returned" /\ rCall.entry = "main") => rExit = <<>>
    /\ rPc = "panicked" => (rResult.kind = "none" /\ xResult.kind = "none")

\* render returned SyntaxError, main() printed it and exited with 1
C14_Witness ==
    /\ rPc = "exited"
    /\ rCall.fn = "render"
    /\ rResult.kind = "SyntaxError"
    /\ rStderr = "Error rendering diagram"
    /\ rExit = <<1>>

(***************************************************************************)
(* More claims about the bundle cache (SpecCache)                          *)
(***************************************************************************)
\* C15: when a call has returned Ok and nobody else touched the cache
\* directory, both returned paths name something that exists, whichever
\* platform the bundle was built for.
C15_ReturnedPathsExist ==
    \A t \in Threads :
        (pc[t] = "returned" /\ res[t].kind = "Ok" /\ proc.tampers = 0) =>
            /\ Exists(res[t].java_exe)
            /\ Exists(res[t].plantuml_jar)

\* a step in which the call of thread t comes back with an error
C16_Fails(t) == res'[t].kind # "none" /\ res'[t].kind # "Ok" /\ res[t] # res'[t]

\* C16: a call that fails returns BinaryExtraction with the cause of the
\* failure; the step that fails leaves the memo unset, releases the
\* initializer and starts no new extraction; no call extracts more than once;
\* and a call that enters after a failure, with the memo unset, goes to the
\* completeness check.
C16_FailureNotMemoized ==
    /\ [](proc.extractions <= proc.calls)
    /\ [][\A t \in Threads :
            /\ C16_Fails(t) =>
                  /\ res'[t].kind = "BinaryExtraction"
                  /\ res'[t].cause \in {"create_dir_all", "InvalidData", "File::create", "write_all"}
                  /\ pc'[t] = "returned"
                  /\ cell' = "unset"
                  /\ owner' = 0
                  /\ proc'.extractions = proc.extractions
            /\ (pc[t] = "enter" /\ pc'[t] # "enter" /\ proc.failed > 0 /\ cell = "unset") =>
                  pc'[t] = "check"
       ]_vars

\* one call failed on a malformed archive, and another call of the same process
\* is at the completeness check again
C16_Witness ==
    \E t, u \in Threads :
        /\ res[t].kind = "BinaryExtraction"
        /\ res[t].cause = "InvalidData"
        /\ proc.failed = 1
        /\ cell = "unset"
        /\ pc[u] = "check"

(***************************************************************************)
(* More claims about the invoker (SpecExec, SpecPipe)                      *)
(***************************************************************************)
\* C17: the child of a call is started with the arguments -jar <jar> -pipe
\* -tsvg -charset UTF-8; when the parent waits, the whole input has been written
\* to the child's stdin and stdin is closed; what wait_with_output returns is
\* all of the child's stdout and stderr and its status; a result that depends
\* on the child's exit comes from a child that was waited for; and from its
\* spawn to the end of the call the child stays the same one: no step spawns
\* again.
C17_RoundTripOrder ==
    /\ [](/\ xChild.spawned =>
                xChild.args = <<"-jar", JarPath(CacheDir), "-pipe", "-tsvg", "-charset", "UTF-8">>
          /\ (xPc \in {"wait", "classify"} \/ xOutput.collected) =>
                (xChild.stdin = xInput /\ ~xChild.stdin_open)
          /\ xOutput.collected =>
                /\ xChild.waited
                /\ xOutput.stdout = xChild.stdout
                /\ xOutput.stderr = xChild.stderr
                /\ xOutput.status = xChild.status
          /\ (xPc = "done" /\ xResult.kind \in {"Ok", "InvalidUtf8", "SyntaxError", "ProcessFailed"}) =>
                (xChild.spawned /\ xOutput.collected))
    /\ [][/\ (xChild'.waited /\ ~xChild.waited) =>
                (xChild.stdin = xInput /\ ~xChild.stdin_open)
          /\ (xChild.spawned /\ xPc' # "resolve") =>
                /\ xChild'.spawned
                /\ xChild'.args = xChild.args
                /\ xChild'.stdout = xChild.stdout
                /\ xChild'.stderr = xChild.stderr
                /\ xChild'.status = xChild.status
          /\ xPc \in {"write", "wait", "classify", "done"} => xPc' # "spawn"
       ]_vars

\* the parent has written the diagram, closed stdin and collected both streams
C17_Witness ==
    /\ xPc = "classify"
    /\ xChild.stdin = <<"@startuml", "Alice -> Bob: Hello", "@enduml">>
    /\ ~xChild.stdin_open
    /\ xOutput.collected
    /\ xOutput.stdout = <<"<svg>">>
    /\ xOutput.stderr = <<"Exception">>

\* C19: when execute_pipe has returned, a child it spawned has been waited
\* for, whichever way it returned.
C19_ChildReaped ==
    (xPc = "done" /\ xChild.spawned) => xChild.waited

\* write_all cannot go on: the stdin pipe is full and the child is alive
ParentBlockedOnStdin ==
    qPc = "write" /\ qLeft > 0 /\ qStdin = PipeCap /\ qChild.op # "exited"

\* the child is in a write to a pipe that is full
ChildBlockedOnOutput ==
    \/ qChild.op = "out" /\ qStdout = PipeCap
    \/ qChild.op = "err" /\ qStderr = PipeCap

\* C18: with pipes of bounded capacity there is no state in which the parent
\* is blocked writing stdin while the child is blocked writing a full stdout
\* or stderr pipe.
C18_NoMutualBlock == ~(ParentBlockedOnStdin /\ ChildBlockedOnOutput)

(***************************************************************************)
(* A frame claim about the facade (SpecRender)                             *)
(***************************************************************************)
\* C20: in render_file and render_to_file, while execute_pipe has returned an
\* error, and once the function has returned InputRead or an error of
\* execute_pipe, the output file is as the call found it: not created and not
\* modified.
C20_OutputUntouchedOnFailure ==
    rCall.fn \in {"render_file", "render_to_file"} =>
        /\ (xPc = "done" /\ xResult.kind # "Ok") => rOutFile = rOutBefore
        /\ rResult.kind \in {"InputRead", "BinaryExtraction", "ProcessSpawn", "StdinWrite",
                             "ProcessFailed", "SyntaxError", "InvalidUtf8"} =>
              rOutFile = rOutBefore

\* render_to_file returned InvalidUtf8 and the file that was there is as it was
C20_Witness ==
    /\ rCall.fn = "render_to_file"
    /\ rPc = "returned"
    /\ rResult.kind = "InvalidUtf8"
    /\ rOutBefore = OldOutFile
    /\ rOutFile = OldOutFile
====
